---- MODULE Spec2Model ----
(***************************************************************************)
(* Model of the three page scrapers of websiteImages-Scraper:              *)
(*   extractSocialLinks     src/social_link_extractor.js  lines 12-206     *)
(*   scrapeFacebookProfile  src/unnamed/part_001          lines 12-200     *)
(*   scrapeLocalServices    src/social_link_extractor.js  lines 232-347    *)
(*                                                                         *)
(* One behaviour is one invocation of one scraper.  Every await of the     *)
(* source is a step; what the page answers at that step (elements, texts,  *)
(* attributes, or a thrown error) is an input of the step.                 *)
(*                                                                         *)
(* Strings are sequences of tokens.  A token is an indivisible piece of    *)
(* text; toLowerCase, trim, includes and the regular expressions of the    *)
(* source are computed token by token.                                     *)
(***************************************************************************)
EXTENDS Integers, Sequences, FiniteSets, TLC

VARIABLES
    fn,           \* the scraper this invocation runs
    targetUrl,    \* the caller's first argument (URL, or query for local services)
    pageArg,      \* scrapeLocalServices' page argument
    maxRetries,   \* config.maxRetries
    url,          \* the normalized url
    pc,           \* position of the invocation in its function body
    browser,      \* "none" | "open" | "closed"
    outcome,      \* how the returned promise settled
    bodyText,     \* what textContent('body') answers right after navigation
    recaptcha,    \* whether iframe[src*="recaptcha"] is on the page after navigation
    result,       \* extractSocialLinks: the result object
    attempts,     \* extractSocialLinks: let attempts
    elems,        \* extractSocialLinks: the header / footer handles of this pass
    iterating,    \* extractSocialLinks: the list of the current loop has been queried
    retries,      \* scrapeFacebookProfile: let retries
    profileInfo,  \* scrapeFacebookProfile: let profileInfo (NoProfile = null)
    locals,       \* scrapeFacebookProfile: the const/let values of the current pass
    prevHeight,   \* scrapeLocalServices: let prevHeight
    ran,          \* history: the strategies executed so far in the pass in progress
    dom,          \* the page content one pass is applied to (see PassSpec)
    other,        \* the frame of a second invocation, suspended at an await (see PairSpec)
    details,      \* scrapeLocalServices: phone, category, address and their found flags
    scanned,      \* scrapeLocalServices: the spans of the item the forEach has visited
    seen,         \* history: per profile field, the values read by passes that threw
    best,         \* history: per field, the best-priority candidate seen so far
    passes,       \* history: extraction passes begun
    waits,        \* history: waitForTimeout calls made
    closes,       \* history: browser.close() calls made
    trail         \* history: facts about the run (see the actions)

vars == <<fn, targetUrl, pageArg, maxRetries, dom, other, details, scanned, url, pc,
          browser, outcome, bodyText,
          recaptcha, result, attempts, elems, iterating, retries, profileInfo,
          locals, prevHeight, ran, seen, best, passes, waits, closes, trail>>

-----------------------------------------------------------------------------
(* Bounds of the model *)

MaxCap == 2        \* maxRetries ranges over 0..MaxCap
MaxHeight == 2     \* document.body.scrollHeight ranges over 0..MaxHeight
MaxPage == 2       \* the page argument ranges over 1..MaxPage
MaxScrolls == 3    \* scroll rounds counted
MaxLinks == 2      \* links of the document a whole pass is applied to
MaxPairCap == 2    \* maxRetries of the first of two interleaved invocations
MaxSpans == 3      \* span.hGz87c elements of the item whose fields are classified

-----------------------------------------------------------------------------
(* Strings *)

Null == <<"#null">>        \* JavaScript null
Throws == <<"#throws">>    \* the call that would give this value throws instead
Empty == << >>             \* ''

Truthy(s) == s # Null /\ s # Empty

LowerToken(t) ==
    CASE t = "FACEBOOK.COM" -> "facebook.com"
      [] t = "HTTPS://" -> "https://"
      [] t = "/Acme" -> "/acme"
      [] t = "Contact" -> "contact"
      [] t = "Open" -> "open"
      [] t = "Closed" -> "closed"
      [] t = "Opens" -> "opens"
      [] t = "Of" -> "of"
      [] OTHER -> t

ToLowerCase(s) == [i \in DOMAIN s |-> LowerToken(s[i])]

\* the substrings of a token that the source searches for
TokenParts(t) ==
    CASE t = "/contact" -> {"/contact", "contact"}
      [] t = "opens" -> {"opens", "open"}
      [] OTHER -> {t}

Includes(s, part) == \E i \in DOMAIN s : part \in TokenParts(s[i])

IsSpace(t) == t = " "

RECURSIVE TrimStart(_)
TrimStart(s) == IF s # << >> /\ IsSpace(Head(s)) THEN TrimStart(Tail(s)) ELSE s

RECURSIVE TrimEnd(_)
TrimEnd(s) ==
    IF s # << >> /\ IsSpace(s[Len(s)]) THEN TrimEnd(SubSeq(s, 1, Len(s) - 1)) ELSE s

Trim(s) == TrimEnd(TrimStart(s))

Msg == {<<"Timeout 30000ms exceeded">>, <<"net::ERR_NAME_NOT_RESOLVED">>}


Returning(v) == [status |-> "returning", value |-> v]   \* a return inside try/catch
Pending == [status |-> "pending", value |-> << >>]

-----------------------------------------------------------------------------
(* extractSocialLinks: data and helpers *)

socialPlatforms == <<"facebook", "instagram", "twitter", "youtube", "linkedin">>

Platforms == {socialPlatforms[i] : i \in DOMAIN socialPlatforms}

Fields == Platforms \cup {"contact"}

\* `${platform}.com`
PlatformDomain(p) ==
    CASE p = "facebook" -> "facebook.com"
      [] p = "instagram" -> "instagram.com"
      [] p = "twitter" -> "twitter.com"
      [] p = "youtube" -> "youtube.com"
      [] p = "linkedin" -> "linkedin.com"

NormalizeSocial(t) ==
    LET u == Trim(t)
    IN  IF u # << >> /\ LowerToken(Head(u)) \in {"http://", "https://"}
        THEN u
        ELSE <<"http://">> \o u

InitialResult == [f \in Fields |-> Empty]

NoCandidate == [cand |-> [f \in Fields |-> [s |-> 0, v |-> Empty]], contested |-> FALSE]

hasSocialLinks(res) == \E f \in Fields : Truthy(res[f])

\* the strategy numbers of the passes' comments
Regions == 1
JsonLd == 2
RelMe == 3
MetaTags == 4
FullDocument == 5
RawMarkup == 6

\* the assignment without its guard `!result[f]`
Offer_Overwrite(acc, s, f, v) ==
    [result |-> [acc.result EXCEPT ![f] = v],
     best |-> [cand |-> IF Truthy(v) /\ (acc.best.cand[f].s = 0 \/ s < acc.best.cand[f].s)
                        THEN [acc.best.cand EXCEPT ![f] = [s |-> s, v |-> v]]
                        ELSE acc.best.cand,
               contested |-> \/ acc.best.contested
                             \/ /\ Truthy(v) /\ Truthy(acc.result[f])
                                /\ v # acc.result[f]
                                /\ acc.best.cand[f].s # 0 /\ acc.best.cand[f].s < s]]

(* The guarded assignment `if (!result[f]) result[f] = v` of strategy s.     *)
(* acc.best is history.  cand[f]: the candidate of the smallest strategy     *)
(* number seen for f, and among those of one strategy the first one.         *)
(* contested: a strategy came with another value for a field that a          *)
(* strategy of higher priority had resolved.                                 *)
Offer(acc, s, f, v) ==
    [result |-> IF ~Truthy(acc.result[f])
                THEN [acc.result EXCEPT ![f] = v]
                ELSE acc.result,
     best |-> [cand |-> IF Truthy(v) /\ (acc.best.cand[f].s = 0 \/ s < acc.best.cand[f].s)
                        THEN [acc.best.cand EXCEPT ![f] = [s |-> s, v |-> v]]
                        ELSE acc.best.cand,
               contested |-> \/ acc.best.contested
                             \/ /\ Truthy(v) /\ Truthy(acc.result[f])
                                /\ v # acc.result[f]
                                /\ acc.best.cand[f].s # 0 /\ acc.best.cand[f].s < s]]

(* for (const platform of socialPlatforms)                                   *)
(*   if (!result[platform] && lower.includes(`${platform}.com`)) ... = value *)
OfferPlatforms(acc, s, text, value) ==
    LET lower == ToLowerCase(text)
        hit(f) == f \in Platforms /\ Includes(lower, PlatformDomain(f))
    IN  [result |-> [f \in Fields |->
                        IF hit(f) THEN Offer(acc, s, f, value).result[f]
                        ELSE acc.result[f]],
         best |-> [cand |-> [f \in Fields |->
                                IF hit(f) THEN Offer(acc, s, f, value).best.cand[f]
                                ELSE acc.best.cand[f]],
                   contested |-> \/ acc.best.contested
                                 \/ \E f \in Fields :
                                        hit(f) /\ Offer(acc, s, f, value).best.contested]]

(* One iteration of the loop of extractLinksFrom over a link [href, text];   *)
(* text = Throws: link.textContent() throws or answers null.                 *)
ExtractLink(acc, s, link) ==
    IF ~Truthy(link.href)
    THEN [acc |-> acc, threw |-> FALSE]
    ELSE LET hrefLower == ToLowerCase(link.href)
             a1 == OfferPlatforms(acc, s, link.href, link.href)
         IN  IF Truthy(a1.result["contact"])
             THEN [acc |-> a1, threw |-> FALSE]
             ELSE IF Includes(hrefLower, "/contact")
             THEN [acc |-> Offer(a1, s, "contact", link.href), threw |-> FALSE]
             ELSE IF link.text = Throws
             THEN [acc |-> a1, threw |-> TRUE]
             ELSE IF Includes(ToLowerCase(link.text), "contact")
             THEN [acc |-> Offer(a1, s, "contact", link.href), threw |-> FALSE]
             ELSE [acc |-> a1, threw |-> FALSE]

(* The sameAs links of one JSON-LD script, in order.  A link that is not a   *)
(* string (Null) makes link.toLowerCase() throw; the script's own try/catch  *)
(* swallows it and the rest of the script is not read.                       *)
RECURSIVE ScanSameAs(_, _)
ScanSameAs(acc, links) ==
    IF links = << >> \/ Head(links) = Null
    THEN acc
    ELSE ScanSameAs(OfferPlatforms(acc, JsonLd, Head(links), Head(links)), Tail(links))

(* One <script type="application/ld+json">.  kind: "malformed" (textContent  *)
(* or JSON.parse throws, or the document is null), "object", "array" (sameAs *)
(* is read from element 0), "emptyArray".  form: "absent", "string", "array".*)
ScanScript(acc, script) ==
    IF script.kind \in {"malformed", "emptyArray"} \/ script.form = "absent"
    THEN acc
    ELSE IF script.form = "string"
    THEN IF Truthy(script.links[1]) THEN ScanSameAs(acc, <<script.links[1]>>) ELSE acc
    ELSE ScanSameAs(acc, script.links)

\* the twitter:site tag read without the test of result.twitter
MetaTwitter_Unguarded(acc, present, content) ==
    IF present /\ Truthy(content)
    THEN Offer_Overwrite(acc, MetaTags, "twitter", Trim(content))
    ELSE acc

(* lines 135-141; present: page.$ found the meta element, content: its       *)
(* content attribute                                                         *)
MetaTwitter(acc, present, content) ==
    IF present /\ ~Truthy(acc.result["twitter"]) /\ Truthy(content)
    THEN Offer(acc, MetaTags, "twitter", Trim(content))
    ELSE acc

(* content.split(',') of og:see_also, part by part *)
RECURSIVE ScanSeeAlso(_, _)
ScanSeeAlso(acc, parts) ==
    IF parts = << >>
    THEN acc
    ELSE ScanSeeAlso(OfferPlatforms(acc, MetaTags, Head(parts), Trim(Head(parts))),
                     Tail(parts))

\* tokens holding one of the characters " ' >
IsDelimiter(t) == t \in {"<p>", "</p>", "<a href=\"", "\">", "src='", "'"}

\* tokens made of the characters of [\w./?=&%-] only
IsUrlChars(t) ==
    t \in {"//", "www.", "facebook.com", "FACEBOOK.COM", "instagram.com", "twitter.com",
           "youtube.com", "linkedin.com", "/acme", "/Acme", "cdn.x", "/a.js", "and"}

(* new RegExp(`(?:https?:)?\/\/[^"'>]*${platform}\.com[\w\./?=&%-]*`, 'gi')  *)
(* .exec(html): the leftmost match, the middle part greedy; Null: no match.  *)
RegexExec(html, p) ==
    LET Doms(i) == {k \in DOMAIN html :
                        /\ k > i
                        /\ LowerToken(html[k]) = PlatformDomain(p)
                        /\ \A j \in (i + 1)..(k - 1) : ~IsDelimiter(html[j])}
        Starts == {i \in DOMAIN html : html[i] = "//" /\ Doms(i) # {}}
    IN  IF Starts = {}
        THEN Null
        ELSE LET i == CHOOSE x \in Starts : \A y \in Starts : x <= y
                 from == IF i > 1 /\ LowerToken(html[i - 1]) \in {"http:", "https:"}
                         THEN i - 1 ELSE i
                 k == CHOOSE x \in Doms(i) : \A y \in Doms(i) : y <= x
                 Ends == {e \in k..Len(html) :
                              \A j \in (k + 1)..e : IsUrlChars(html[j])}
                 to == CHOOSE x \in Ends : \A y \in Ends : y <= x
             IN  SubSeq(html, from, to)

(* for (const platform of socialPlatforms) if (!result[platform]) { exec } *)
RECURSIVE ScanMarkup(_, _, _)
ScanMarkup(acc, html, i) ==
    IF i > Len(socialPlatforms)
    THEN acc
    ELSE LET p == socialPlatforms[i]
             match == IF Truthy(acc.result[p]) THEN Null ELSE RegexExec(html, p)
         IN  ScanMarkup(IF match # Null THEN Offer(acc, RawMarkup, p, match) ELSE acc,
                        html, i + 1)


\* extractLinksFrom over the links of one element, until a link throws
RECURSIVE ScanList(_, _, _)
ScanList(acc, s, links) ==
    IF links = << >>
    THEN [acc |-> acc, threw |-> FALSE]
    ELSE LET r == ExtractLink(acc, s, Head(links))
         IN  IF r.threw THEN r ELSE ScanList(r.acc, s, Tail(links))

\* lines 92-117: the scripts in order
RECURSIVE ScanScripts(_, _)
ScanScripts(acc, scripts) ==
    IF scripts = << >> THEN acc
    ELSE ScanScripts(ScanScript(acc, Head(scripts)), Tail(scripts))

\* lines 121-131: the rel=me links in order
RECURSIVE ScanRelMe(_, _)
ScanRelMe(acc, hrefs) ==
    IF hrefs = << >> THEN acc
    ELSE ScanRelMe(IF Truthy(Head(hrefs))
                   THEN OfferPlatforms(acc, RelMe, Head(hrefs), Head(hrefs))
                   ELSE acc,
                   Tail(hrefs))

(* The body of the try of lines 82-188 up to line 177, applied to the record *)
(* rec on the page content page: the record when the pass ends, at its last  *)
(* strategy or at the link whose textContent() throws.                       *)
PassOf(rec, page) ==
    LET a0 == [result |-> rec, best |-> NoCandidate]
        HeaderOf == IF page.header.present
                    THEN ScanList(a0, Regions, page.header.links)
                    ELSE [acc |-> a0, threw |-> FALSE]
        FooterOf(h) == IF ~h.threw /\ page.footer.present
                       THEN ScanList(h.acc, Regions, page.footer.links)
                       ELSE h
        SeeAlsoOf(a4) == IF page.seeAlso.present
                         THEN ScanSeeAlso(a4, page.seeAlso.parts)
                         ELSE a4
        DocumentOf(a5) == IF hasSocialLinks(a5.result)
                          THEN [acc |-> a5, threw |-> FALSE]
                          ELSE ScanList(a5, FullDocument, page.links)
        MarkupOf(d) == IF d.threw \/ hasSocialLinks(d.acc.result)
                       THEN d.acc.result
                       ELSE ScanMarkup(d.acc, page.html, 1).result
        MetaOf(f) ==
            IF f.threw
            THEN f.acc.result
            ELSE MarkupOf(DocumentOf(SeeAlsoOf(
                     MetaTwitter(ScanRelMe(ScanScripts(f.acc, page.scripts), page.relMe),
                                 page.twitter.present, page.twitter.content))))
    IN  MetaOf(FooterOf(HeaderOf))

-----------------------------------------------------------------------------
(* What a page can answer *)

UrlSamples ==
    {<<"example.com">>, <<" ", "HTTPS://", "example.com", " ", " ", "acme", " ">>}

\* the page after navigation: [body, iframe]
PageSamples ==
    {[body |-> <<"Welcome">>, iframe |-> FALSE],
     [body |-> <<"Our systems have detected ", "unusual traffic">>, iframe |-> FALSE],
     [body |-> <<"I'm ", "not a robot">>, iframe |-> FALSE],
     [body |-> <<"Welcome">>, iframe |-> TRUE]}

\* extractSocialLinks never reads the body text or looks for the iframe
SocialPageSamples == {p \in PageSamples : p.body # <<"I'm ", "not a robot">>}

\* a[href] elements: [href, text]
LinkSamples ==
    {[href |-> <<"//", "FACEBOOK.COM", "/Acme">>, text |-> <<"fb">>],
     [href |-> <<"https://", "twitter.com", "/acme">>, text |-> Throws],
     [href |-> <<"https://", "linkedin.com", "/share?u=", "youtube.com">>,
      text |-> <<"Share">>],
     [href |-> <<"/contact">>, text |-> <<"Write">>],
     [href |-> <<"/about">>, text |-> <<"Contact", " ", "us">>],
     [href |-> Null, text |-> <<"Home">>]}

\* <script type="application/ld+json"> elements
ScriptSamples ==
    {[kind |-> "malformed", form |-> "absent", links |-> << >>],
     [kind |-> "object", form |-> "absent", links |-> << >>],
     [kind |-> "object", form |-> "string",
      links |-> << <<"https://", "facebook.com", "/ld">> >>],
     [kind |-> "object", form |-> "array",
      links |-> << <<"https://", "facebook.com", "/ld">>,
                   <<"https://", "instagram.com", "/ld">> >>],
     [kind |-> "array", form |-> "array",
      links |-> << Null, <<"https://", "youtube.com", "/ld">> >>],
     [kind |-> "emptyArray", form |-> "absent", links |-> << >>]}

\* href of <link rel="me">
RelMeSamples ==
    {Null, <<"https://", "facebook.com", "/me">>, <<"https://", "mastodon.social", "/@acme">>,
     <<"https://", "linkedin.com", "/me">>}

\* content of <meta name="twitter:site">
TwitterSiteSamples == {Null, <<" ">>, <<" ", "@acme", " ">>}

\* content of <meta property="og:see_also">, split at ','
SeeAlsoSamples ==
    {<< >>,
     << <<"https://", "example.org">> >>,
     << <<"https://", "twitter.com", "/also">>, <<" ", "https://", "instagram.com", "/also">> >>}

\* page.content()
HtmlSamples ==
    {<<"<p>", "instagram.com", "/acme", "</p>">>,
     <<"<a href=\"", "https:", "//", "www.", "instagram.com", "/acme", "\">">>,
     <<"src='", "//", "cdn.x", "/a.js", "'", " ", "twitter.com", "/acme">>,
     <<"<p>", "//", "FACEBOOK.COM", "/Acme", " ", "and", " ", "youtube.com", "/acme", "</p>">>}

\* no second invocation
NoOther == [pc |-> "done"]

\* the page as one pass reads it
NoList == [present |-> FALSE, links |-> << >>]

NoPage ==
    [header |-> NoList, footer |-> NoList, scripts |-> << >>, relMe |-> << >>,
     twitter |-> [present |-> FALSE, content |-> Null],
     seeAlso |-> [present |-> FALSE, parts |-> << >>],
     links |-> << >>, html |-> << >>]

\* the sequences of at most n elements of S
Lists(S, n) == UNION {[1..k -> S] : k \in 0..n}

DocLinkSamples ==
    {[href |-> <<"//", "FACEBOOK.COM", "/Acme">>, text |-> <<"fb">>],
     [href |-> <<"https://", "twitter.com", "/acme">>, text |-> Throws],
     [href |-> <<"/about">>, text |-> <<"Contact", " ", "us">>],
     [href |-> <<"/about">>, text |-> Throws]}

PageContents ==
    [header : {NoList,
               [present |-> TRUE,
                links |-> << [href |-> <<"https://", "linkedin.com", "/share?u=", "youtube.com">>,
                              text |-> <<"Share">>],
                             [href |-> <<"https://", "twitter.com", "/acme">>, text |-> Throws] >>]},
     footer : {NoList,
               [present |-> TRUE,
                links |-> << [href |-> <<"/contact">>, text |-> <<"Write">>] >>]},
     scripts : {<< >>,
                << [kind |-> "malformed", form |-> "absent", links |-> << >>],
                   [kind |-> "object", form |-> "array",
                    links |-> << <<"https://", "facebook.com", "/ld">>,
                                 <<"https://", "instagram.com", "/ld">> >>] >>},
     relMe : {<< >>, << Null, <<"https://", "facebook.com", "/me">> >>},
     twitter : {[present |-> FALSE, content |-> Null],
                [present |-> TRUE, content |-> <<" ">>],
                [present |-> TRUE, content |-> <<" ", "@acme", " ">>]},
     seeAlso : {[present |-> FALSE, parts |-> << >>],
                [present |-> TRUE,
                 parts |-> << <<"https://", "twitter.com", "/also">>,
                              <<" ", "https://", "instagram.com", "/also">> >>]},
     links : Lists(DocLinkSamples, MaxLinks),
     html : {<<"<p>", "instagram.com", "/acme", "</p>">>,
             <<"<p>", "//", "FACEBOOK.COM", "/Acme", " ", "and", " ", "youtube.com",
               "/acme", "</p>">>}]

\* the records a pass is applied to: empty, partly resolved, completely resolved
RecordSamples ==
    {InitialResult,
     [InitialResult EXCEPT !["youtube"] = <<"https://", "youtube.com", "/known">>],
     [f \in Fields |-> <<"https://", "known.example", "/", f>>]}

-----------------------------------------------------------------------------
(* History *)

NoTrail ==
    [setupFailed |-> FALSE,  \* launch, newContext or newPage threw
     navFailed |-> FALSE,    \* page.goto threw
     guardFired |-> FALSE,   \* the captcha condition was evaluated and was true
     threw |-> 0,            \* passes that ended in the per-attempt catch
     waitThrew |-> FALSE,    \* a waitForTimeout between passes threw
     completeAt |-> 0,       \* the first pass at whose end the loop's predicate held
     skipped |-> FALSE,      \* a throw left strategies of its pass unexecuted
     scrolls |-> 0,          \* scroll rounds of scrapeLocalServices
     scraped |-> FALSE]      \* the listing scrape of scrapeLocalServices ran

Acc == [result |-> result, best |-> best]

Scrapers == {"extractSocialLinks", "scrapeFacebookProfile", "scrapeLocalServices"}


-----------------------------------------------------------------------------
(* extractSocialLinks, src/social_link_extractor.js lines 12-206 *)

cfgVars == <<fn, targetUrl, pageArg, maxRetries, dom, other>>
pageVars == <<bodyText, recaptcha>>
fbVars == <<retries, profileInfo, locals, seen>>
itemVars == <<details, scanned>>
countVars == <<passes, waits, closes>>

IsSocial == fn = "extractSocialLinks"

\* the strategy a position of the pass belongs to
StrategyAt(p) ==
    CASE p \in {"query", "header", "footer"} -> Regions
      [] p = "jsonld" -> JsonLd
      [] p = "relme" -> RelMe
      [] p \in {"twitter", "seealso"} -> MetaTags
      [] p = "document" -> FullDocument
      [] OTHER -> RawMarkup

\* the pass's predicate is noted the first time a pass ends with it true
PassEnded(t, complete) ==
    IF t.completeAt = 0 /\ complete THEN [t EXCEPT !.completeAt = passes] ELSE t

\* an error thrown inside the try of lines 82-188 lands in the catch of line 189
SocialThrow ==
    /\ pc' = "catch"
    /\ trail' = [trail EXCEPT !.skipped = @ \/ (pc # "wait" /\ StrategyAt(pc) < RawMarkup),
                              !.waitThrew = @ \/ pc = "wait"]

(* chromium.launch, browser.newContext and context.newPage come before the  *)
(* try of each scraper: a throw of one of them rejects the promise, and      *)
(* after a launch that succeeded (opened) the browser stays open.            *)
SetupReject(opened) ==
    /\ browser' = (IF opened THEN "open" ELSE "none")
    /\ \E m \in Msg : outcome' = [status |-> "rejected", value |-> [message |-> m]]
    /\ trail' = [trail EXCEPT !.setupFailed = TRUE]
    /\ pc' = "done"

\* strategy s takes a step: it is noted once, when it begins
Ran(s) == IF ran # << >> /\ ran[Len(ran)] = s THEN ran ELSE Append(ran, s)

\* lines 21-25
SocialCall ==
    /\ IsSocial /\ pc = "call"
    /\ url' = NormalizeSocial(targetUrl)
    /\ pc' = "launch"
    /\ UNCHANGED <<cfgVars, itemVars, pageVars, fbVars, countVars, browser, outcome, result,
                   attempts, elems, iterating, prevHeight, ran, best, trail>>

\* lines 29-34
SocialLaunch ==
    /\ IsSocial /\ pc = "launch"
    /\ \/ browser' = "open" /\ pc' = "goto" /\ UNCHANGED <<outcome, trail>>
       \/ \E opened \in BOOLEAN : SetupReject(opened)
    /\ UNCHANGED <<cfgVars, itemVars, pageVars, fbVars, countVars, url, result,
                   attempts, elems, iterating, prevHeight, ran, best>>

\* navigation followed by the captcha check of the other two scrapers
SocialGoto_Guarded ==
    /\ IsSocial /\ pc = "goto"
    /\ \/ /\ \E p \in SocialPageSamples :
                /\ bodyText' = p.body /\ recaptcha' = p.iframe
                /\ IF Includes(p.body, "unusual traffic") \/ p.iframe
                   THEN /\ outcome' = Returning([error |-> <<"captcha">>, url |-> url])
                        /\ pc' = "finally"
                   ELSE /\ pc' = "loop"
                        /\ UNCHANGED outcome
          /\ result' = InitialResult
          /\ attempts' = 0
          /\ UNCHANGED trail
       \/ /\ \E m \in Msg : outcome' = Returning([error |-> m, url |-> url])
          /\ trail' = [trail EXCEPT !.navFailed = TRUE]
          /\ pc' = "finally"
          /\ UNCHANGED <<pageVars, result, attempts>>
    /\ UNCHANGED <<cfgVars, itemVars, fbVars, countVars, url, browser, elems, iterating,
                   prevHeight, ran, best>>

\* lines 38-76; a throw of page.goto lands in the catch of lines 197-202
SocialGoto ==
    /\ IsSocial /\ pc = "goto"
    /\ \/ /\ \E p \in SocialPageSamples : bodyText' = p.body /\ recaptcha' = p.iframe
          /\ result' = InitialResult
          /\ attempts' = 0
          /\ pc' = "loop"
          /\ UNCHANGED <<outcome, trail>>
       \/ /\ \E m \in Msg : outcome' = Returning([error |-> m, url |-> url])
          /\ trail' = [trail EXCEPT !.navFailed = TRUE]
          /\ pc' = "finally"
          /\ UNCHANGED <<pageVars, result, attempts>>
    /\ UNCHANGED <<cfgVars, itemVars, fbVars, countVars, url, browser, elems, iterating,
                   prevHeight, ran, best>>

\* the condition with <= for <
SocialLoopGuard_OffByOne(a, cap, res) == a <= cap /\ ~hasSocialLinks(res)

\* line 78: while (attempts < config.maxRetries && !hasSocialLinks())
SocialLoopGuard(a, cap, res) == a < cap /\ ~hasSocialLinks(res)

\* lines 78-80
SocialLoop ==
    /\ IsSocial /\ pc = "loop"
    /\ IF SocialLoopGuard(attempts, maxRetries, result)
       THEN /\ attempts' = attempts + 1
            /\ passes' = passes + 1
            /\ pc' = "query"
       ELSE /\ pc' = "return"
            /\ UNCHANGED <<attempts, passes>>
    /\ ran' = << >>
    /\ UNCHANGED <<cfgVars, itemVars, pageVars, fbVars, url, browser, outcome, result, elems,
                   iterating, prevHeight, best, waits, closes, trail>>

\* lines 84-85: page.$('header'), page.$('footer')
SocialQuery ==
    /\ IsSocial /\ pc = "query"
    /\ \/ /\ \E h \in BOOLEAN, f \in BOOLEAN : elems' = [header |-> h, footer |-> f]
          /\ iterating' = FALSE
          /\ pc' = "header"
          /\ UNCHANGED trail
       \/ SocialThrow /\ UNCHANGED <<elems, iterating>>
    /\ ran' = Ran(Regions)
    /\ UNCHANGED <<cfgVars, itemVars, pageVars, fbVars, countVars, url, browser, outcome, result,
                   attempts, prevHeight, best>>

(* extractLinksFrom(element), lines 51-73, called at position `at` for the   *)
(* strategy s, one link a step; `wanted` is the condition of the call; the   *)
(* first branch is the end of the list, or the call not made.  A list has    *)
(* any number of links.                                                      *)
ScanLinks(at, s, wanted, next) ==
    /\ IsSocial /\ pc = at
    /\ \/ /\ pc' = next
          /\ iterating' = FALSE
          /\ ran' = IF wanted THEN Ran(s) ELSE ran
          /\ UNCHANGED <<result, best, trail>>
       \/ /\ wanted
          /\ ran' = Ran(s)
          /\ \E link \in LinkSamples :
                LET r == ExtractLink(Acc, s, link)
                IN  /\ result' = r.acc.result
                    /\ best' = r.acc.best
                    /\ iterating' = TRUE
                    /\ IF r.threw THEN SocialThrow ELSE pc' = at /\ UNCHANGED trail
       \/ /\ wanted
          /\ ran' = Ran(s)
          /\ SocialThrow
          /\ UNCHANGED <<result, best, iterating>>
    /\ UNCHANGED <<cfgVars, itemVars, pageVars, fbVars, countVars, url, browser, outcome,
                   attempts, prevHeight>>

\* const header, const footer are not used after line 88
NoHandles == [header |-> FALSE, footer |-> FALSE]

\* line 87
SocialHeader ==
    /\ ScanLinks("header", Regions, elems.header, "footer")
    /\ elems' = IF pc' = "catch" THEN NoHandles ELSE elems

\* line 88
SocialFooter ==
    /\ ScanLinks("footer", Regions, elems.footer, "jsonld")
    /\ elems' = IF pc' = "footer" THEN elems ELSE NoHandles

\* lines 91-117; only page.$$ can throw past the script's own try/catch
SocialJsonLd ==
    /\ IsSocial /\ pc = "jsonld"
    /\ \/ /\ pc' = "relme"
          /\ iterating' = FALSE
          /\ UNCHANGED <<result, best, trail>>
       \/ /\ \E script \in ScriptSamples :
                LET a == ScanScript(Acc, script)
                IN  result' = a.result /\ best' = a.best
          /\ iterating' = TRUE
          /\ UNCHANGED <<pc, trail>>
       \/ /\ ~iterating
          /\ SocialThrow
          /\ UNCHANGED <<result, best, iterating>>
    /\ ran' = Ran(JsonLd)
    /\ UNCHANGED <<cfgVars, itemVars, pageVars, fbVars, countVars, url, browser, outcome,
                   attempts, elems, prevHeight>>

\* lines 120-131
SocialRelMe ==
    /\ IsSocial /\ pc = "relme"
    /\ \/ /\ pc' = "twitter"
          /\ iterating' = FALSE
          /\ UNCHANGED <<result, best, trail>>
       \/ /\ \E href \in RelMeSamples :
                LET a == IF Truthy(href) THEN OfferPlatforms(Acc, RelMe, href, href) ELSE Acc
                IN  result' = a.result /\ best' = a.best
          /\ iterating' = TRUE
          /\ UNCHANGED <<pc, trail>>
       \/ /\ SocialThrow
          /\ UNCHANGED <<result, best, iterating>>
    /\ ran' = Ran(RelMe)
    /\ UNCHANGED <<cfgVars, itemVars, pageVars, fbVars, countVars, url, browser, outcome,
                   attempts, elems, prevHeight>>

\* lines 135-141; present: page.$ found the meta element
SocialTwitterSite ==
    /\ IsSocial /\ pc = "twitter"
    /\ \/ /\ \E present \in BOOLEAN, content \in TwitterSiteSamples :
                LET a == MetaTwitter(Acc, present, content)
                IN  result' = a.result /\ best' = a.best
          /\ pc' = "seealso"
          /\ UNCHANGED trail
       \/ /\ SocialThrow
          /\ UNCHANGED <<result, best>>
    /\ ran' = Ran(MetaTags)
    /\ UNCHANGED <<cfgVars, itemVars, pageVars, fbVars, countVars, url, browser, outcome,
                   attempts, elems, iterating, prevHeight>>

\* lines 144-158
SocialSeeAlso ==
    /\ IsSocial /\ pc = "seealso"
    /\ \/ /\ \E present \in BOOLEAN, parts \in SeeAlsoSamples :
                LET a == IF present THEN ScanSeeAlso(Acc, parts) ELSE Acc
                IN  result' = a.result /\ best' = a.best
          /\ pc' = "document"
          /\ UNCHANGED trail
       \/ /\ SocialThrow
          /\ UNCHANGED <<result, best>>
    /\ ran' = Ran(MetaTags)
    /\ UNCHANGED <<cfgVars, itemVars, pageVars, fbVars, countVars, url, browser, outcome,
                   attempts, elems, iterating, prevHeight>>

\* the full-document scan without its condition
SocialDocument_Always ==
    /\ ScanLinks("document", FullDocument, TRUE, "markup")
    /\ UNCHANGED elems

\* lines 161-163
SocialDocument ==
    /\ ScanLinks("document", FullDocument, iterating \/ ~hasSocialLinks(result), "markup")
    /\ UNCHANGED elems

\* lines 166-177
SocialMarkup ==
    /\ IsSocial /\ pc = "markup"
    /\ \/ /\ IF hasSocialLinks(result)
             THEN UNCHANGED <<result, best, ran>>
             ELSE /\ \E html \in HtmlSamples :
                        LET a == ScanMarkup(Acc, html, 1)
                        IN  result' = a.result /\ best' = a.best
                  /\ ran' = Ran(RawMarkup)
          /\ pc' = "check"
          /\ UNCHANGED trail
       \/ /\ ~hasSocialLinks(result)
          /\ ran' = Ran(RawMarkup)
          /\ SocialThrow
          /\ UNCHANGED <<result, best>>
    /\ UNCHANGED <<cfgVars, itemVars, pageVars, fbVars, countVars, url, browser, outcome,
                   attempts, elems, iterating, prevHeight>>

\* the break taken at the end of every pass
SocialBreak_Always(a, cap, res) == TRUE

\* line 182: if (hasSocialLinks() || attempts >= config.maxRetries) break
SocialBreak(a, cap, res) == hasSocialLinks(res) \/ a >= cap

\* lines 179-184
SocialCheck ==
    /\ IsSocial /\ pc = "check"
    /\ pc' = IF SocialBreak(attempts, maxRetries, result) THEN "return" ELSE "wait"
    /\ trail' = PassEnded(trail, hasSocialLinks(result))
    /\ ran' = << >>
    /\ UNCHANGED <<cfgVars, itemVars, pageVars, fbVars, countVars, url, browser, outcome, result,
                   attempts, elems, iterating, prevHeight, best>>

\* line 187
SocialWait ==
    /\ IsSocial /\ pc = "wait"
    /\ waits' = waits + 1
    /\ \/ pc' = "loop" /\ UNCHANGED trail
       \/ SocialThrow
    /\ UNCHANGED <<cfgVars, itemVars, pageVars, fbVars, url, browser, outcome, result, attempts,
                   elems, iterating, prevHeight, ran, best, passes, closes>>

\* the handler passing the error on to the catch of lines 197-202
SocialCatch_Rethrow ==
    /\ IsSocial /\ pc = "catch"
    /\ \E m \in Msg : outcome' = Returning([error |-> m, url |-> url])
    /\ pc' = "finally"
    /\ trail' = [PassEnded(trail, hasSocialLinks(result)) EXCEPT !.threw = @ + 1]
    /\ UNCHANGED <<cfgVars, itemVars, pageVars, fbVars, countVars, url, browser, result,
                   attempts, elems, iterating, prevHeight, ran, best>>

\* lines 189-192: log, then the while condition again
SocialCatch ==
    /\ IsSocial /\ pc = "catch"
    /\ pc' = "loop"
    /\ trail' = [PassEnded(trail, hasSocialLinks(result)) EXCEPT !.threw = @ + 1]
    /\ ran' = << >>
    /\ UNCHANGED <<cfgVars, itemVars, pageVars, fbVars, countVars, url, browser, outcome, result,
                   attempts, elems, iterating, prevHeight, best>>

\* line 195
SocialReturn ==
    /\ IsSocial /\ pc = "return"
    /\ outcome' = Returning(result)
    /\ pc' = "finally"
    /\ UNCHANGED <<cfgVars, itemVars, pageVars, fbVars, countVars, url, browser, result,
                   attempts, elems, iterating, prevHeight, ran, best, trail>>

\* lines 203-205, then the promise resolves with the value returned
SocialFinally ==
    /\ IsSocial /\ pc = "finally"
    /\ browser' = "closed"
    /\ closes' = closes + 1
    /\ outcome' = [outcome EXCEPT !.status = "returned"]
    /\ pc' = "done"
    /\ UNCHANGED <<cfgVars, itemVars, pageVars, fbVars, url, result, attempts, elems, iterating,
                   prevHeight, ran, best, passes, waits, trail>>

SocialNext ==
    \/ SocialCall \/ SocialLaunch \/ SocialGoto \/ SocialLoop \/ SocialQuery
    \/ SocialHeader \/ SocialFooter \/ SocialJsonLd \/ SocialRelMe
    \/ SocialTwitterSite \/ SocialSeeAlso \/ SocialDocument \/ SocialMarkup
    \/ SocialCheck \/ SocialWait \/ SocialCatch \/ SocialReturn \/ SocialFinally


-----------------------------------------------------------------------------
(* scrapeFacebookProfile, src/unnamed/part_001 lines 12-200 *)

IsFacebook == fn = "scrapeFacebookProfile"

MaxUrlWords == 10    \* slice(0, 10)

(* url.split(/\s+/).slice(0, 10).join(" ") of a string without leading      *)
(* whitespace: out is the text built, n the words in it.                     *)
RECURSIVE JoinWords(_, _, _, _, _)
JoinWords(s, i, out, n, afterSpace) ==
    IF i > Len(s)
    THEN out
    ELSE IF IsSpace(s[i])
    THEN JoinWords(s, i + 1, out, n, TRUE)
    ELSE IF out = << >>
    THEN JoinWords(s, i + 1, <<s[i]>>, 1, FALSE)
    ELSE IF ~afterSpace
    THEN JoinWords(s, i + 1, out \o <<s[i]>>, n, FALSE)
    ELSE IF n >= MaxUrlWords
    THEN out
    ELSE JoinWords(s, i + 1, out \o <<" ", s[i]>>, n + 1, FALSE)

\* lines 22-28
NormalizeFacebook(t) ==
    LET u == Trim(t)
        v == IF u # << >> /\ LowerToken(Head(u)) \in {"http://", "https://"}
             THEN u
             ELSE <<"https://">> \o u
    IN  JoinWords(v, 1, << >>, 0, FALSE)

\* the condition without its iframe test
CaptchaDetected_NoIframe(body, iframe) ==
    Includes(body, "unusual traffic") \/ Includes(body, "not a robot")

\* lines 46-50
CaptchaDetected(body, iframe) ==
    Includes(body, "unusual traffic") \/ Includes(body, "not a robot") \/ iframe

ProfileFields ==
    {"pageName", "pageLikes", "pageFollowers", "phone", "email", "address",
     "website", "category"}

EmptyProfile == [f \in ProfileFields |-> Empty]    \* lines 177-186

NoProfile == [f \in {"null"} |-> Empty]            \* let profileInfo = null

NothingSeen == [f \in ProfileFields |-> {}]

\* /^[\w.-]+\.[a-z]{2,}$/i
IsWordChars(t) == t \in {"acme", "info", "com", "other", "Hello", ".", "-"}
IsLetters2(t) == t \in {"acme", "info", "com", "other", "Hello"}
IsWebsite(s) ==
    /\ Len(s) >= 3
    /\ IsLetters2(s[Len(s)])
    /\ s[Len(s) - 1] = "."
    /\ \A i \in 1..(Len(s) - 2) : IsWordChars(s[i])

\* one span of lines 83-96
ScanSpan(loc, text) ==
    LET trimmedText == Trim(text)
        l1 == IF ~Truthy(loc.email) /\ Includes(trimmedText, "@") /\ Includes(trimmedText, ".")
              THEN [loc EXCEPT !.email = trimmedText]
              ELSE loc
    IN  IF ~Truthy(l1.website) /\ IsWebsite(trimmedText)
        THEN [l1 EXCEPT !.website = trimmedText]
        ELSE l1

\* one div of lines 105-125; img, span: Null when the locator counts 0
ScanContactDiv(loc, div) ==
    IF div.img = Null \/ div.span = Null
    THEN loc
    ELSE LET l1 == IF ~Truthy(loc.phone) /\ Includes(div.img, "Dc7-7AgwkwS.png")
                   THEN [loc EXCEPT !.phone = Trim(div.span)]
                   ELSE loc
         IN  IF ~Truthy(l1.address) /\ Includes(div.img, "8k_Y-oVxbuU.png")
             THEN [l1 EXCEPT !.address = Trim(div.span)]
             ELSE l1

(* parentText.replace(/Page\s*·\s*/, ''): the first "Page" that is followed, *)
(* after spaces, by "·" is removed with the dot and the spaces around it.    *)
RECURSIVE SkipSpaces(_, _)
SkipSpaces(s, i) == IF i <= Len(s) /\ IsSpace(s[i]) THEN SkipSpaces(s, i + 1) ELSE i

ReplacePageDot(s) ==
    LET Hits == {i \in DOMAIN s :
                    /\ s[i] = "Page"
                    /\ SkipSpaces(s, i + 1) <= Len(s)
                    /\ s[SkipSpaces(s, i + 1)] = "·"}
    IN  IF Hits = {}
        THEN s
        ELSE LET i == CHOOSE x \in Hits : \A y \in Hits : x <= y
                 j == SkipSpaces(s, SkipSpaces(s, i + 1) + 1)
             IN  SubSeq(s, 1, i - 1) \o SubSeq(s, j, Len(s))

\* lines 128-150; first, alt: whether the two locators count > 0
Category(first, alt, parent) ==
    IF (first \/ alt) /\ parent # Null THEN Trim(ReplacePageDot(parent)) ELSE Empty

\* line 153
FoundAny(loc) == \E f \in ProfileFields : Truthy(loc[f])

\* lines 154-163
ProfileOf(loc) == [f \in ProfileFields |-> loc[f]]

TextSamples == {Null, <<"Acme", " ", "Diner">>}

\* the innerText of the span[dir="auto"] elements, in document order
SpanListSamples ==
    {<< >>,
     << <<"Hello">>, <<" ", "info", "@", "acme", ".", "com", " ">>, <<"acme", ".", "com">>,
        <<"other", ".", "com">> >>}

\* the contact divs, in document order: [img src, span text]
ContactListSamples ==
    {<< >>,
     << [img |-> Null, span |-> <<"x">>],
        [img |-> <<"https://static/", "Dc7-7AgwkwS.png">>, span |-> Null] >>,
     << [img |-> <<"https://static/", "Dc7-7AgwkwS.png">>, span |-> <<" ", "555-0100">>],
        [img |-> <<"https://static/", "8k_Y-oVxbuU.png">>, span |-> <<"1 Main St">>],
        [img |-> <<"https://static/", "Dc7-7AgwkwS.png">>, span |-> <<"555-0199">>] >>}

ParentSamples == {Null, <<"Page", " ", "·", " ", "Diner">>, <<"Diner">>}

Note(sn, loc) == [f \in ProfileFields |-> IF Truthy(loc[f]) THEN sn[f] \cup {loc[f]} ELSE sn[f]]

\* an error thrown inside the try of lines 65-165 lands in the catch of line 166
ProfileThrow ==
    /\ pc' = "catch"
    /\ trail' = [trail EXCEPT !.skipped = @ \/ pc # "category"]

\* an error thrown outside it lands in the catch of lines 191-196
ProfileFail ==
    /\ \E m \in Msg : outcome' = Returning([error |-> m, url |-> url])
    /\ pc' = "finally"


socVars == <<result, attempts, elems, best, ran>>

\* lines 21-30
ProfileCall ==
    /\ IsFacebook /\ pc = "call"
    /\ url' = NormalizeFacebook(targetUrl)
    /\ pc' = "launch"
    /\ UNCHANGED <<cfgVars, itemVars, pageVars, fbVars, countVars, socVars, browser, outcome,
                   iterating, prevHeight, trail>>

\* lines 32-37
ProfileLaunch ==
    /\ IsFacebook /\ pc = "launch"
    /\ \/ browser' = "open" /\ pc' = "goto" /\ UNCHANGED <<outcome, trail>>
       \/ \E opened \in BOOLEAN : SetupReject(opened)
    /\ UNCHANGED <<cfgVars, itemVars, pageVars, fbVars, countVars, socVars, url,
                   iterating, prevHeight>>

\* lines 41-44
ProfileGoto ==
    /\ IsFacebook /\ pc = "goto"
    /\ \/ /\ \E p \in PageSamples : bodyText' = p.body /\ recaptcha' = p.iframe
          /\ pc' = "guard"
          /\ UNCHANGED <<outcome, trail>>
       \/ /\ ProfileFail
          /\ trail' = [trail EXCEPT !.navFailed = TRUE]
          /\ UNCHANGED pageVars
    /\ UNCHANGED <<cfgVars, itemVars, fbVars, countVars, socVars, url, browser, iterating, prevHeight>>

\* lines 46-60
ProfileGuard ==
    /\ IsFacebook /\ pc = "guard"
    /\ IF CaptchaDetected(bodyText, recaptcha)
       THEN /\ outcome' = Returning([error |-> <<"captcha">>, url |-> url])
            /\ trail' = [trail EXCEPT !.guardFired = TRUE]
            /\ pc' = "finally"
            /\ UNCHANGED <<retries, profileInfo>>
       ELSE /\ retries' = 0
            /\ profileInfo' = NoProfile
            /\ pc' = "loop"
            /\ UNCHANGED <<outcome, trail>>
    /\ UNCHANGED <<cfgVars, itemVars, pageVars, countVars, socVars, url, browser, locals, seen,
                   iterating, prevHeight>>

\* line 62: while (retries < config.maxRetries && !profileInfo)
ProfileLoopGuard(r, cap, info) == r < cap /\ info = NoProfile

\* lines 62-63
ProfileLoop ==
    /\ IsFacebook /\ pc = "loop"
    /\ IF ProfileLoopGuard(retries, maxRetries, profileInfo)
       THEN /\ passes' = passes + 1
            /\ locals' = EmptyProfile
            /\ pc' = "name"
       ELSE /\ pc' = "after"
            /\ UNCHANGED <<passes, locals>>
    /\ UNCHANGED <<cfgVars, itemVars, pageVars, socVars, url, browser, outcome, retries,
                   profileInfo, seen, iterating, prevHeight, waits, closes, trail>>

\* a step of the pass that stores what it read in the locals
ProfileStep(loc, next) ==
    /\ locals' = loc
    /\ pc' = next
    /\ UNCHANGED trail

\* lines 67-68
ProfileName ==
    /\ IsFacebook /\ pc = "name"
    /\ \/ \E t \in TextSamples :
             ProfileStep([locals EXCEPT !.pageName = IF t = Null THEN Empty ELSE t], "likes")
       \/ ProfileThrow /\ UNCHANGED locals
    /\ UNCHANGED <<cfgVars, itemVars, pageVars, countVars, socVars, url, browser, outcome, retries,
                   profileInfo, seen, iterating, prevHeight>>

\* lines 71-75
ProfileLikes ==
    /\ IsFacebook /\ pc = "likes"
    /\ \/ \E l \in {Null, <<"1K likes">>}, f \in {Null, <<"2K followers">>} :
             ProfileStep([locals EXCEPT !.pageLikes = IF l = Null THEN Empty ELSE l,
                                        !.pageFollowers = IF f = Null THEN Empty ELSE f],
                         "spans")
       \/ ProfileThrow /\ UNCHANGED locals
    /\ UNCHANGED <<cfgVars, itemVars, pageVars, countVars, socVars, url, browser, outcome, retries,
                   profileInfo, seen, iterating, prevHeight>>

(* lines 82-96: the spans in order.  The locals of a pass that throws are    *)
(* dropped, so a throw inside the loop is a throw of the step.               *)
RECURSIVE ScanSpans(_, _)
ScanSpans(loc, spans) ==
    IF spans = << >> THEN loc ELSE ScanSpans(ScanSpan(loc, Head(spans)), Tail(spans))

ProfileSpans ==
    /\ IsFacebook /\ pc = "spans"
    /\ \/ \E spans \in SpanListSamples : ProfileStep(ScanSpans(locals, spans), "contact")
       \/ ProfileThrow /\ UNCHANGED locals
    /\ UNCHANGED <<cfgVars, itemVars, pageVars, countVars, socVars, url, browser, outcome, retries,
                   profileInfo, seen, iterating, prevHeight>>

\* lines 103-125: the divs in order
RECURSIVE ScanContactDivs(_, _)
ScanContactDivs(loc, divs) ==
    IF divs = << >> THEN loc
    ELSE ScanContactDivs(ScanContactDiv(loc, Head(divs)), Tail(divs))

ProfileContact ==
    /\ IsFacebook /\ pc = "contact"
    /\ \/ \E divs \in ContactListSamples :
             ProfileStep(ScanContactDivs(locals, divs), "category")
       \/ ProfileThrow /\ UNCHANGED locals
    /\ UNCHANGED <<cfgVars, itemVars, pageVars, countVars, socVars, url, browser, outcome, retries,
                   profileInfo, seen, iterating, prevHeight>>

\* lines 128-150
ProfileCategory ==
    /\ IsFacebook /\ pc = "category"
    /\ \/ \E first \in BOOLEAN, alt \in BOOLEAN, parent \in ParentSamples :
             ProfileStep([locals EXCEPT !.category = Category(first, alt, parent)], "check")
       \/ ProfileThrow /\ UNCHANGED locals
    /\ UNCHANGED <<cfgVars, itemVars, pageVars, countVars, socVars, url, browser, outcome, retries,
                   profileInfo, seen, iterating, prevHeight>>

\* the pass that finds the profile counting itself before the break
ProfileCheck_Counts ==
    /\ IsFacebook /\ pc = "check"
    /\ IF FoundAny(locals)
       THEN profileInfo' = ProfileOf(locals) /\ pc' = "after" /\ retries' = retries + 1
       ELSE pc' = "wait" /\ UNCHANGED <<profileInfo, retries>>
    /\ trail' = PassEnded(trail, FoundAny(locals))
    /\ UNCHANGED <<cfgVars, itemVars, pageVars, countVars, socVars, url, browser, outcome,
                   locals, seen, iterating, prevHeight>>

\* lines 153-165
ProfileCheck ==
    /\ IsFacebook /\ pc = "check"
    /\ IF FoundAny(locals)
       THEN profileInfo' = ProfileOf(locals) /\ pc' = "after"
       ELSE pc' = "wait" /\ UNCHANGED profileInfo
    /\ trail' = PassEnded(trail, FoundAny(locals))
    /\ UNCHANGED <<cfgVars, itemVars, pageVars, countVars, socVars, url, browser, outcome, retries,
                   locals, seen, iterating, prevHeight>>

\* the handler passing the error on to the catch of lines 191-196
ProfileCatch_Rethrow ==
    /\ IsFacebook /\ pc = "catch"
    /\ ProfileFail
    /\ seen' = Note(seen, locals)
    /\ trail' = [trail EXCEPT !.threw = @ + 1]
    /\ UNCHANGED <<cfgVars, itemVars, pageVars, countVars, socVars, url, browser,
                   retries, profileInfo, locals, iterating, prevHeight>>

\* lines 166-168
ProfileCatch ==
    /\ IsFacebook /\ pc = "catch"
    /\ pc' = "wait"
    /\ seen' = Note(seen, locals)
    /\ trail' = [trail EXCEPT !.threw = @ + 1]
    /\ UNCHANGED <<cfgVars, itemVars, pageVars, countVars, socVars, url, browser, outcome,
                   retries, profileInfo, locals, iterating, prevHeight>>

\* lines 171-172
ProfileWait ==
    /\ IsFacebook /\ pc = "wait"
    /\ waits' = waits + 1
    /\ \/ /\ retries' = retries + 1
          /\ pc' = "loop"
          /\ UNCHANGED <<outcome, trail>>
       \/ /\ ProfileFail
          /\ trail' = [trail EXCEPT !.waitThrew = TRUE]
          /\ UNCHANGED retries
    /\ UNCHANGED <<cfgVars, itemVars, pageVars, socVars, url, browser, profileInfo, locals, seen,
                   iterating, prevHeight, passes, closes>>

\* the return without the default of lines 176-187
ProfileReturn_NoDefault ==
    /\ IsFacebook /\ pc = "after"
    /\ UNCHANGED profileInfo
    /\ outcome' = Returning(profileInfo)
    /\ pc' = "finally"
    /\ UNCHANGED <<cfgVars, itemVars, pageVars, countVars, socVars, url, browser, retries, locals,
                   seen, iterating, prevHeight, trail>>

\* lines 176-189
ProfileReturn ==
    /\ IsFacebook /\ pc = "after"
    /\ profileInfo' = IF profileInfo = NoProfile THEN EmptyProfile ELSE profileInfo
    /\ outcome' = Returning(profileInfo')
    /\ pc' = "finally"
    /\ UNCHANGED <<cfgVars, itemVars, pageVars, countVars, socVars, url, browser, retries, locals,
                   seen, iterating, prevHeight, trail>>

\* lines 197-199, then the promise resolves with the value returned
ProfileFinally ==
    /\ IsFacebook /\ pc = "finally"
    /\ browser' = "closed"
    /\ closes' = closes + 1
    /\ outcome' = [outcome EXCEPT !.status = "returned"]
    /\ pc' = "done"
    /\ UNCHANGED <<cfgVars, itemVars, pageVars, fbVars, socVars, url, iterating, prevHeight,
                   passes, waits, trail>>

ProfileNext ==
    \/ ProfileCall \/ ProfileLaunch \/ ProfileGoto \/ ProfileGuard \/ ProfileLoop
    \/ ProfileName \/ ProfileLikes \/ ProfileSpans \/ ProfileContact
    \/ ProfileCategory \/ ProfileCheck \/ ProfileCatch \/ ProfileWait
    \/ ProfileReturn \/ ProfileFinally


-----------------------------------------------------------------------------
(* scrapeLocalServices, src/social_link_extractor.js lines 232-347 *)

IsLocal == fn = "scrapeLocalServices"

QuerySamples == {<<"electrician", " ", "in", " ", "chicago">>}

\* encodeURIComponent
EncodeURIComponent(s) == [i \in DOMAIN s |-> IF IsSpace(s[i]) THEN "%20" ELSE s[i]]

ResultsPerPage == 20    \* line 241

\* lines 237-242
LocalUrl(query, page) ==
    <<"https://www.google.com/localservices/prolist?g2lbs=...&ssta=1&q=">>
        \o EncodeURIComponent(query) \o <<"&oq=">> \o EncodeURIComponent(query)
        \o <<"&src=2&serdesk=1">>
        \o (IF page > 1 THEN <<"&lci=", ToString(ResultsPerPage * (page - 1))>> ELSE << >>)

NA == <<"N/A">>

\* /^[+()?\d\s-]+$/
IsPhoneChars(t) == t \in {"+1", "(555)", "555-0100", " "}
PhoneTest(s) == s # << >> /\ \A i \in DOMAIN s : IsPhoneChars(s[i])

NoDetails ==
    [phone |-> NA, category |-> NA, address |-> NA,
     foundPhone |-> FALSE, foundCategory |-> FALSE, foundAddress |-> FALSE]

\* two ifs in place of the else-if chain: a span taken as phone goes on to category
ClassifySpan_NoElse(d, innerText) ==
    LET text == Trim(innerText)
        lower == ToLowerCase(text)
        p == IF ~d.foundPhone /\ PhoneTest(text)
             THEN [d EXCEPT !.phone = text, !.foundPhone = TRUE]
             ELSE d
    IN  IF Includes(lower, "open") \/ Includes(lower, "closed")
        THEN d
        ELSE IF ~p.foundCategory
        THEN [p EXCEPT !.category = text, !.foundCategory = TRUE]
        ELSE IF ~p.foundAddress /\ p = d
        THEN [p EXCEPT !.address = text, !.foundAddress = TRUE]
        ELSE p

\* one span.hGz87c of lines 293-309
ClassifySpan(d, innerText) ==
    LET text == Trim(innerText)
        lower == ToLowerCase(text)
    IN  IF Includes(lower, "open") \/ Includes(lower, "closed")
        THEN d
        ELSE IF ~d.foundPhone /\ PhoneTest(text)
        THEN [d EXCEPT !.phone = text, !.foundPhone = TRUE]
        ELSE IF ~d.foundCategory
        THEN [d EXCEPT !.category = text, !.foundCategory = TRUE]
        ELSE IF ~d.foundAddress
        THEN [d EXCEPT !.address = text, !.foundAddress = TRUE]
        ELSE d

RECURSIVE ClassifySpans(_, _)
ClassifySpans(d, spans) ==
    IF spans = << >> THEN d ELSE ClassifySpans(ClassifySpan(d, Head(spans)), Tail(spans))

\* innerText.replace(/[()]/g, "")
RECURSIVE DropParens(_)
DropParens(s) ==
    IF s = << >> THEN << >>
    ELSE IF Head(s) \in {"(", ")"} THEN DropParens(Tail(s))
    ELSE <<Head(s)>> \o DropParens(Tail(s))

\* lines 278-330 for one item; Null: the element is not there
Listing(e, query, page) ==
    LET d == ClassifySpans(NoDetails, e.spans)
    IN  [name |-> IF e.name = Null THEN NA ELSE Trim(e.name),
         phone |-> d.phone,
         category |-> d.category,
         address |-> d.address,
         website |-> IF Truthy(e.link) /\ ~Includes(e.link, "maps.google.com")
                     THEN Trim(e.link) ELSE NA,
         reviews |-> IF e.reviews = Null THEN NA ELSE Trim(DropParens(e.reviews)),
         rating |-> IF e.rating = Null THEN NA ELSE Trim(e.rating),
         page |-> page,
         keyword |-> query]

\* lines 275-331: items with span.uDmIZc are left out
RECURSIVE Listings(_, _, _)
Listings(items, query, page) ==
    IF items = << >> THEN << >>
    ELSE IF Head(items).ad THEN Listings(Tail(items), query, page)
    ELSE <<Listing(Head(items), query, page)>> \o Listings(Tail(items), query, page)

\* parseInt(match[1].replace(/,/g, ""), 10)
ParseCount(t) == CASE t = "1,234" -> 1234 [] t = "57" -> 57 [] OTHER -> 0

IsDigitsCommas(t) == t \in {"1,234", "57"}

\* lines 333-340: aria-label.match(/of\s+([\d,]+)/i); Null: no label
Total(data, label) ==
    LET Hits == {i \in DOMAIN label :
                    /\ LowerToken(label[i]) = "of"
                    /\ i + 1 <= Len(label) /\ IsSpace(label[i + 1])
                    /\ SkipSpaces(label, i + 1) <= Len(label)
                    /\ IsDigitsCommas(label[SkipSpaces(label, i + 1)])}
    IN  IF label = Null \/ Hits = {}
        THEN Len(data)
        ELSE LET i == CHOOSE x \in Hits : \A y \in Hits : x <= y
             IN  ParseCount(label[SkipSpaces(label, i + 1)])

ItemSamples ==
    {[ad |-> TRUE, name |-> <<"Sponsored">>, link |-> Null, spans |-> << >>,
      reviews |-> Null, rating |-> Null],
     [ad |-> FALSE, name |-> <<" ", "Acme Electric">>,
      link |-> <<"https://", "acme.example", " ">>,
      spans |-> << <<"Open", " ", "24 hours">>, <<"(555)", " ", "555-0100">>,
                   <<"Electrician">>, <<"1 Main St">>, <<"Chicago">> >>,
      reviews |-> <<"(", "12", ")">>, rating |-> <<"4.8">>],
     [ad |-> FALSE, name |-> Null, link |-> <<"https://", "maps.google.com", "/x">>,
      spans |-> << <<"Electrician">>, <<"+1", " ", "555-0100">>, <<"Opens", " ", "9 AM">> >>,
      reviews |-> Null, rating |-> Null]}

LabelSamples == {Null, <<"1-20", " ", "Of", " ", "1,234">>, <<"results">>}

\* lines 247-251: hasCaptcha || hasRecaptcha
LocalCaptchaDetected(body, iframe) ==
    (Includes(body, "unusual traffic") \/ Includes(body, "not a robot")) \/ iframe

\* a throw anywhere in the function rejects the promise: it has no try/catch
LocalReject ==
    /\ \E m \in Msg : outcome' = [status |-> "rejected", value |-> [message |-> m]]
    /\ pc' = "done"

\* lines 233-242
LocalCall ==
    /\ IsLocal /\ pc = "call"
    /\ \/ /\ browser' = "open"
          /\ url' = LocalUrl(targetUrl, pageArg)
          /\ pc' = "goto"
          /\ UNCHANGED <<outcome, trail>>
       \/ /\ \E opened \in BOOLEAN : SetupReject(opened)
          /\ UNCHANGED url
    /\ UNCHANGED <<cfgVars, itemVars, pageVars, fbVars, countVars, socVars, iterating, prevHeight>>

\* lines 244-249
LocalGoto ==
    /\ IsLocal /\ pc = "goto"
    /\ \/ /\ \E p \in PageSamples : bodyText' = p.body /\ recaptcha' = p.iframe
          /\ pc' = "guard"
          /\ UNCHANGED <<outcome, trail>>
       \/ /\ LocalReject
          /\ trail' = [trail EXCEPT !.navFailed = TRUE]
          /\ UNCHANGED pageVars
    /\ UNCHANGED <<cfgVars, itemVars, fbVars, countVars, socVars, url, browser, iterating, prevHeight>>

\* lines 251-257
LocalGuard ==
    /\ IsLocal /\ pc = "guard"
    /\ IF LocalCaptchaDetected(bodyText, recaptcha)
       THEN /\ browser' = "closed"
            /\ closes' = closes + 1
            /\ outcome' = [status |-> "returned", value |-> [error |-> <<"captcha">>]]
            /\ trail' = [trail EXCEPT !.guardFired = TRUE]
            /\ pc' = "done"
            /\ UNCHANGED prevHeight
       ELSE /\ prevHeight' = 0
            /\ pc' = "scroll"
            /\ UNCHANGED <<browser, closes, outcome, trail>>
    /\ UNCHANGED <<cfgVars, itemVars, pageVars, fbVars, socVars, url, iterating, passes, waits>>

(* lines 258-267, one round a step.  The page reports any height at each    *)
(* round; the loop only compares it with the one before.  The two history   *)
(* counters stop counting at MaxScrolls.                                     *)
LocalScroll ==
    /\ IsLocal /\ pc = "scroll"
    /\ \/ /\ \E currentHeight \in 0..MaxHeight :
                IF currentHeight = prevHeight
                THEN pc' = "scrape" /\ UNCHANGED <<prevHeight, waits>>
                ELSE /\ pc' = "scroll"
                     /\ prevHeight' = currentHeight
                     /\ waits' = (IF waits < MaxScrolls THEN waits + 1 ELSE waits)
          /\ trail' = [trail EXCEPT !.scrolls = IF @ < MaxScrolls THEN @ + 1 ELSE @]
          /\ UNCHANGED outcome
       \/ LocalReject /\ UNCHANGED <<prevHeight, waits, trail>>
    /\ UNCHANGED <<cfgVars, itemVars, pageVars, fbVars, socVars, url, browser, iterating, passes, closes>>

\* lines 270-343: one page.evaluate
LocalScrape ==
    /\ IsLocal /\ pc = "scrape"
    /\ \/ /\ \E a \in ItemSamples, b \in ItemSamples, n \in 0..2, label \in LabelSamples :
                LET items == SubSeq(<<a, b>>, 1, n)
                    data == Listings(items, targetUrl, pageArg)
                IN  outcome' = Returning([data |-> data, total |-> Total(data, label)])
          /\ trail' = [trail EXCEPT !.scraped = TRUE]
          /\ pc' = "close"
       \/ LocalReject /\ UNCHANGED trail
    /\ UNCHANGED <<cfgVars, itemVars, pageVars, fbVars, countVars, socVars, url, browser, iterating,
                   prevHeight>>

\* lines 345-346
LocalClose ==
    /\ IsLocal /\ pc = "close"
    /\ browser' = "closed"
    /\ closes' = closes + 1
    /\ outcome' = [outcome EXCEPT !.status = "returned"]
    /\ pc' = "done"
    /\ UNCHANGED <<cfgVars, itemVars, pageVars, fbVars, socVars, url, iterating, prevHeight,
                   passes, waits, trail>>

LocalNext == LocalCall \/ LocalGoto \/ LocalGuard \/ LocalScroll \/ LocalScrape \/ LocalClose

-----------------------------------------------------------------------------
(* One invocation *)

Init ==
    /\ fn \in Scrapers
    /\ targetUrl \in (IF IsLocal THEN QuerySamples ELSE UrlSamples)
    /\ pageArg \in (IF IsLocal THEN 1..MaxPage ELSE {1})
    /\ maxRetries \in (IF IsLocal THEN {0} ELSE 0..MaxCap)
    /\ dom = NoPage
    /\ other = NoOther
    /\ url = Empty
    /\ pc = "call"
    /\ browser = "none"
    /\ outcome = Pending
    /\ bodyText = Empty
    /\ recaptcha = FALSE
    /\ result = InitialResult
    /\ attempts = 0
    /\ elems = NoHandles
    /\ iterating = FALSE
    /\ retries = 0
    /\ profileInfo = NoProfile
    /\ locals = EmptyProfile
    /\ prevHeight = 0
    /\ details = NoDetails
    /\ scanned = 0
    /\ ran = << >>
    /\ seen = NothingSeen
    /\ best = NoCandidate
    /\ passes = 0
    /\ waits = 0
    /\ closes = 0
    /\ trail = NoTrail

Next == SocialNext \/ ProfileNext \/ LocalNext

Spec == Init /\ [][Next]_vars

(* Every awaited operation returns or throws, so an invocation that can take *)
(* a step takes one; the element lists that extractSocialLinks iterates are  *)
(* arrays, so each of its loops over a list comes to the list's end.         *)
Fairness ==
    /\ WF_vars(SocialNext /\ pc' # pc)
    /\ WF_vars(ProfileNext)
    /\ WF_vars(LocalNext)

LiveSpec == Spec /\ Fairness

-----------------------------------------------------------------------------
(* Two invocations interleaved.  An async function runs until its next       *)
(* await; there the event loop may resume another invocation.  Everything    *)
(* an invocation declares (browser, page, result, attempts, retries,         *)
(* profileInfo, the pass's locals) is local to its call, so all of it is     *)
(* part of the frame that is put aside and taken up again.                   *)

Frame ==
    [fn |-> fn, targetUrl |-> targetUrl, pageArg |-> pageArg, maxRetries |-> maxRetries,
     url |-> url, pc |-> pc, browser |-> browser, outcome |-> outcome,
     bodyText |-> bodyText, recaptcha |-> recaptcha, result |-> result,
     attempts |-> attempts, elems |-> elems, iterating |-> iterating,
     retries |-> retries, profileInfo |-> profileInfo, locals |-> locals,
     prevHeight |-> prevHeight, ran |-> ran, seen |-> seen, best |-> best,
     passes |-> passes, waits |-> waits, closes |-> closes, trail |-> trail]

\* the frame of an invocation that has just been called
CalledFrame(f, t, cap) ==
    [fn |-> f, targetUrl |-> t, pageArg |-> 1, maxRetries |-> cap,
     url |-> Empty, pc |-> "call", browser |-> "none", outcome |-> Pending,
     bodyText |-> Empty, recaptcha |-> FALSE, result |-> InitialResult,
     attempts |-> 0, elems |-> NoHandles, iterating |-> FALSE,
     retries |-> 0, profileInfo |-> NoProfile, locals |-> EmptyProfile,
     prevHeight |-> 0, ran |-> << >>, seen |-> NothingSeen, best |-> NoCandidate,
     passes |-> 0, waits |-> 0, closes |-> 0, trail |-> NoTrail]

\* the running invocation takes up the frame fr
Resume(fr) ==
    /\ fn' = fr.fn /\ targetUrl' = fr.targetUrl /\ pageArg' = fr.pageArg
    /\ maxRetries' = fr.maxRetries /\ url' = fr.url /\ pc' = fr.pc
    /\ browser' = fr.browser /\ outcome' = fr.outcome /\ bodyText' = fr.bodyText
    /\ recaptcha' = fr.recaptcha /\ attempts' = fr.attempts /\ elems' = fr.elems
    /\ iterating' = fr.iterating /\ retries' = fr.retries
    /\ profileInfo' = fr.profileInfo /\ locals' = fr.locals
    /\ prevHeight' = fr.prevHeight /\ ran' = fr.ran /\ seen' = fr.seen
    /\ best' = fr.best /\ passes' = fr.passes /\ waits' = fr.waits
    /\ closes' = fr.closes /\ trail' = fr.trail

(* the positions whose next step is an awaited call; a frame that has just  *)
(* been called has not run yet                                               *)
AtAwait(p) ==
    p \in {"launch", "goto", "guard", "query", "header", "footer", "jsonld", "relme",
           "twitter", "seealso", "document", "markup", "wait", "name", "likes",
           "spans", "contact", "category", "finally", "done"}

\* a result object at module level, common to the invocations
Switch_SharedResult ==
    /\ AtAwait(pc)
    /\ other.pc # "done"
    /\ other' = Frame
    /\ Resume(other)
    /\ UNCHANGED <<result, dom, itemVars>>

\* at an await the other invocation is resumed
Switch ==
    /\ AtAwait(pc)
    /\ other.pc # "done"
    /\ other' = Frame
    /\ Resume(other)
    /\ result' = other.result
    /\ UNCHANGED <<dom, itemVars>>

(* The pages of the interleaved invocations: of the signals a page can hold  *)
(* they hold one facebook link and a page name only, the page has neither   *)
(* header nor footer nor a bot-block signal, and of the calls of a pass     *)
(* only the last one and the delay throw, once.                             *)
Narrow ==
    /\ \A f \in Fields \ {"facebook"} : result[f] = Empty
    /\ result["facebook"] \in {Empty, <<"//", "FACEBOOK.COM", "/Acme">>}
    /\ \A f \in ProfileFields \ {"pageName"} : locals[f] = Empty
    /\ ~elems.header /\ ~elems.footer
    /\ ~recaptcha /\ bodyText \in {Empty, <<"Welcome">>}
    /\ trail.threw <= 1
    /\ ~trail.skipped
    /\ ~best.contested
    /\ outcome.status # "pending" =>
            \A k \in DOMAIN outcome.value :
                outcome.value[k] # <<"net::ERR_NAME_NOT_RESOLVED">>

PairScrapers == {"extractSocialLinks", "scrapeFacebookProfile"}

PairInit ==
    /\ fn \in PairScrapers
    /\ targetUrl = <<"example.com">>
    /\ pageArg = 1
    /\ maxRetries \in 1..MaxPairCap
    /\ dom = NoPage
    /\ other \in {CalledFrame(f, <<"example.com">>, 1) : f \in PairScrapers}
    /\ url = Empty
    /\ pc = "call"
    /\ browser = "none"
    /\ outcome = Pending
    /\ bodyText = Empty
    /\ recaptcha = FALSE
    /\ result = InitialResult
    /\ attempts = 0
    /\ elems = NoHandles
    /\ iterating = FALSE
    /\ retries = 0
    /\ profileInfo = NoProfile
    /\ locals = EmptyProfile
    /\ prevHeight = 0
    /\ details = NoDetails
    /\ scanned = 0
    /\ ran = << >>
    /\ seen = NothingSeen
    /\ best = NoCandidate
    /\ passes = 0
    /\ waits = 0
    /\ closes = 0
    /\ trail = NoTrail

\* a step of the running invocation on such a page, or the other one resumed
PairNext ==
    \/ SocialCall /\ Narrow'
    \/ SocialLaunch /\ Narrow'
    \/ SocialGoto /\ Narrow'
    \/ SocialLoop /\ Narrow'
    \/ SocialQuery /\ Narrow'
    \/ SocialHeader /\ Narrow'
    \/ SocialFooter /\ Narrow'
    \/ SocialJsonLd /\ Narrow'
    \/ SocialRelMe /\ Narrow'
    \/ SocialTwitterSite /\ Narrow'
    \/ SocialSeeAlso /\ Narrow'
    \/ SocialDocument /\ Narrow'
    \/ SocialMarkup /\ Narrow'
    \/ SocialCheck /\ Narrow'
    \/ SocialWait /\ Narrow'
    \/ SocialCatch /\ Narrow'
    \/ SocialReturn /\ Narrow'
    \/ SocialFinally /\ Narrow'
    \/ ProfileCall /\ Narrow'
    \/ ProfileLaunch /\ Narrow'
    \/ ProfileGoto /\ Narrow'
    \/ ProfileGuard /\ Narrow'
    \/ ProfileLoop /\ Narrow'
    \/ ProfileName /\ Narrow'
    \/ ProfileLikes /\ Narrow'
    \/ ProfileSpans /\ Narrow'
    \/ ProfileContact /\ Narrow'
    \/ ProfileCategory /\ Narrow'
    \/ ProfileCheck /\ Narrow'
    \/ ProfileCatch /\ Narrow'
    \/ ProfileWait /\ Narrow'
    \/ ProfileReturn /\ Narrow'
    \/ ProfileFinally /\ Narrow'
    \/ Switch

PairSpec == PairInit /\ [][PairNext]_vars

-----------------------------------------------------------------------------
(* One pass as a function: the strategies of extractSocialLinks applied to   *)
(* a record, and applied again to what they gave, on one page content.       *)

PassInit ==
    /\ fn = "extractSocialLinks"
    /\ targetUrl = <<"example.com">>
    /\ pageArg = 1
    /\ maxRetries = 1
    /\ dom \in PageContents
    /\ other = NoOther
    /\ url = NormalizeSocial(targetUrl)
    /\ pc = "first"
    /\ browser = "open"
    /\ outcome = Pending
    /\ bodyText = Empty
    /\ recaptcha = FALSE
    /\ result \in RecordSamples
    /\ attempts = 0
    /\ elems = NoHandles
    /\ iterating = FALSE
    /\ retries = 0
    /\ profileInfo = NoProfile
    /\ locals = EmptyProfile
    /\ prevHeight = 0
    /\ details = NoDetails
    /\ scanned = 0
    /\ ran = << >>
    /\ seen = NothingSeen
    /\ best = NoCandidate
    /\ passes = 0
    /\ waits = 0
    /\ closes = 0
    /\ trail = NoTrail

ApplyPass ==
    /\ pc \in {"first", "second"}
    /\ result' = PassOf(result, dom)
    /\ passes' = passes + 1
    /\ pc' = (IF pc = "first" THEN "second" ELSE "applied")
    /\ UNCHANGED <<cfgVars, itemVars, pageVars, fbVars, url, browser, outcome, attempts, elems,
                   iterating, prevHeight, ran, best, waits, closes, trail>>

PassNext == ApplyPass

PassSpec == PassInit /\ [][PassNext]_vars

-----------------------------------------------------------------------------
(* The fields of one listing: the forEach of lines 293-309 over the spans of *)
(* one item, a span a step, and the record pushed for the item.              *)

\* innerText of a span.hGz87c
SpanSamples ==
    {<<"Open", " ", "24 hours">>,
     <<"Closed">>,
     <<" ", "(555)", " ", "555-0100">>,
     <<"+1", " ", "555-0100">>,
     <<"Electrician">>,
     <<"1 Main St", " ">>,
     <<" ">>}

\* an item of the result list with up to MaxSpans spans
SpanItems ==
    {[ad |-> FALSE, name |-> <<"Acme Electric">>, link |-> Null, spans |-> s,
      reviews |-> Null, rating |-> Null] : s \in Lists(SpanSamples, MaxSpans)}

\* lines 290-291 reached for the item dom
SpanInit ==
    /\ fn = "scrapeLocalServices"
    /\ targetUrl = <<"electrician">>
    /\ pageArg = 1
    /\ maxRetries = 1
    /\ dom \in SpanItems
    /\ other = NoOther
    /\ url = LocalUrl(targetUrl, pageArg)
    /\ pc = "item"
    /\ browser = "open"
    /\ outcome = Pending
    /\ bodyText = Empty
    /\ recaptcha = FALSE
    /\ result = InitialResult
    /\ attempts = 0
    /\ elems = NoHandles
    /\ iterating = FALSE
    /\ retries = 0
    /\ profileInfo = NoProfile
    /\ locals = EmptyProfile
    /\ prevHeight = 0
    /\ details = NoDetails
    /\ scanned = 0
    /\ ran = << >>
    /\ seen = NothingSeen
    /\ best = NoCandidate
    /\ passes = 0
    /\ waits = 0
    /\ closes = 0
    /\ trail = NoTrail

\* lines 293-309: the callback on the next span
SpanVisit ==
    /\ pc = "item" /\ scanned < Len(dom.spans)
    /\ details' = ClassifySpan(details, dom.spans[scanned + 1])
    /\ scanned' = scanned + 1
    /\ UNCHANGED <<cfgVars, pageVars, fbVars, countVars, socVars, url, pc, browser,
                   outcome, iterating, prevHeight, trail>>

\* lines 311-330: the record of the item, with the fields as the forEach left them
SpanPush ==
    /\ pc = "item" /\ scanned = Len(dom.spans)
    /\ outcome' = Returning([Listing(dom, targetUrl, pageArg) EXCEPT
                                 !.phone = details.phone,
                                 !.category = details.category,
                                 !.address = details.address])
    /\ pc' = "pushed"
    /\ UNCHANGED <<cfgVars, itemVars, pageVars, fbVars, countVars, socVars, url, browser,
                   iterating, prevHeight, trail>>

SpanNext == SpanVisit \/ SpanPush

SpanSpec == SpanInit /\ [][SpanNext]_vars

-----------------------------------------------------------------------------
(* Properties *)

Done == pc = "done"

\* the page after navigation shows one of the bot-block signals
PageIsBlocked ==
    \/ \E i \in DOMAIN bodyText : bodyText[i] \in {"unusual traffic", "not a robot"}
    \/ recaptcha

\* the promise resolved with an object that has no error key
ResultReturned == outcome.status = "returned" /\ "error" \notin DOMAIN outcome.value

\* the promise resolved with { error, url }
ErrorReturned(kinds) ==
    /\ outcome.status = "returned"
    /\ DOMAIN outcome.value = {"error", "url"}
    /\ outcome.value["error"] \in kinds
    /\ outcome.value["url"] = url

(* C1: one invocation of extractSocialLinks or scrapeFacebookProfile with a  *)
(* cap maxRetries >= 1 begins at most maxRetries passes, passes that end in  *)
(* the catch included, and exactly one pass when the loop's predicate holds  *)
(* at the end of the first pass.                                             *)
C1_RetryBound ==
    (IsSocial \/ IsFacebook) =>
        /\ maxRetries >= 1 => passes <= maxRetries
        /\ trail.completeAt = 1 => passes = 1

\* every pass of the largest cap threw, and the loop stopped at the cap
C1_Witness == Done /\ IsSocial /\ maxRetries = MaxCap /\ passes = MaxCap /\ trail.threw = MaxCap

(* C2: in scrapeFacebookProfile and scrapeLocalServices, when the page after *)
(* navigation holds 'unusual traffic' or 'not a robot' or a recaptcha        *)
(* iframe, no pass, wait, scroll or scrape happens and the outcome has       *)
(* error = 'captcha'.                                                        *)
C2_BotBlockShortCircuit ==
    ((IsFacebook \/ IsLocal) /\ PageIsBlocked /\ pc # "guard") =>
        /\ passes = 0 /\ waits = 0
        /\ trail.scrolls = 0 /\ ~trail.scraped
        /\ outcome.status \in {"returning", "returned"}
        /\ "error" \in DOMAIN outcome.value
        /\ outcome.value["error"] = <<"captcha">>
        /\ Done => outcome.status = "returned"

C2_Witness == Done /\ IsLocal /\ recaptcha /\ outcome.status = "returned"

C4_CaptchaCarriesUrl ==
    ((IsFacebook \/ IsLocal) /\ trail.guardFired /\ Done) => ErrorReturned({<<"captcha">>})

(* C5: in extractSocialLinks a field of the result record that holds a value *)
(* is never changed by a later strategy or pass; the value of a field is the *)
(* candidate of the highest-priority strategy that had one for it; and the   *)
(* record returned is that record.                                           *)
C5_FirstFoundWins ==
    /\ [][IsSocial => \A f \in Fields : Truthy(result[f]) => result'[f] = result[f]]_vars
    /\ [](IsSocial => \A f \in Fields :
              Truthy(result[f]) => best.cand[f].s # 0 /\ result[f] = best.cand[f].v)
    /\ [](IsSocial /\ Done /\ ~trail.setupFailed /\ ~trail.navFailed
              => outcome.value = result)

\* a lower-priority strategy came with another value for a resolved field
C5_Witness == Done /\ IsSocial /\ best.contested /\ ResultReturned

(* C6, as claimed: in each of the three scrapers a failed navigation         *)
(* resolves to { error: <message>, url: <normalized target> }, with no pass. *)
C6_NavigationFailure ==
    (trail.navFailed /\ Done) => ErrorReturned(Msg) /\ passes = 0

(* C7, as claimed: in extractSocialLinks a throw of one strategy leaves no   *)
(* lower-priority strategy of the same pass unexecuted.                      *)
C7_PassGoesOn_Claimed == IsSocial => ~trail.skipped

(* C7, amended: in extractSocialLinks only a failure inside one JSON-LD      *)
(* script is recovered inside the pass (the next script and the later        *)
(* strategies follow).  Any other throw of a strategy ends the pass: the     *)
(* per-attempt catch takes it, the values assigned before the throw are      *)
(* kept, no further strategy of that pass runs, and the loop condition is    *)
(* evaluated next.                                                           *)
C7_ThrowEndsThePass ==
    /\ [][(IsSocial /\ pc # "catch" /\ pc' = "catch") =>
              /\ pc \notin {"loop", "check", "return", "finally", "done"}
              /\ \A f \in Fields : Truthy(result[f]) => result'[f] = result[f]
              /\ attempts' = attempts]_vars
    /\ [][(IsSocial /\ pc = "catch") =>
              pc' = "loop" /\ result' = result /\ attempts' = attempts]_vars
    /\ [][(IsSocial /\ pc = "jsonld" /\ iterating') => pc' = "jsonld"]_vars

\* a strategy threw after a value was assigned, and later strategies were left out
C7_Witness == IsSocial /\ pc = "catch" /\ trail.skipped /\ hasSocialLinks(result)

(* C8: in extractSocialLinks and scrapeFacebookProfile, after a pass in      *)
(* which a strategy threw the loop goes on until the cap is reached or the   *)
(* record is complete, and the invocation returns a result record, not an    *)
(* error record.  (A waitForTimeout of scrapeFacebookProfile that throws is  *)
(* no strategy error: it is outside the per-attempt try.)                    *)
C8_StrategyErrorKeepsLoop ==
    ((IsSocial \/ IsFacebook) /\ Done /\ trail.threw > 0
        /\ ~(IsFacebook /\ trail.waitThrew)) =>
        /\ ResultReturned
        /\ \/ passes = maxRetries
           \/ IsSocial /\ hasSocialLinks(outcome.value)
           \/ IsFacebook /\ FoundAny(outcome.value)

\* the first pass threw, the second one found something
C8_Witness ==
    Done /\ IsFacebook /\ trail.threw = 1 /\ passes = 2
         /\ ResultReturned /\ FoundAny(outcome.value)

(* C9, as claimed: with maxRetries 0 or 1, extractSocialLinks and            *)
(* scrapeFacebookProfile run exactly one pass after a navigation that        *)
(* succeeded and was not bot-blocked.                                        *)
C9_CapZeroOrOne ==
    ((IsSocial \/ IsFacebook) /\ Done /\ maxRetries \in {0, 1}
        /\ ~trail.setupFailed /\ ~trail.navFailed /\ ~trail.guardFired) => passes = 1

(* C10, as claimed: when the loop of extractSocialLinks or                   *)
(* scrapeFacebookProfile ends at the cap, a result record is returned that   *)
(* holds every field value a strategy resolved in any pass, passes that      *)
(* later threw included.                                                     *)
C10_KeepsWhatWasFound ==
    /\ (IsSocial /\ Done /\ ~trail.setupFailed /\ ~trail.navFailed
            /\ attempts >= maxRetries) =>
            ResultReturned /\ outcome.value = result
    /\ (IsFacebook /\ Done /\ ~trail.setupFailed /\ ~trail.navFailed
            /\ ~trail.guardFired /\ ~trail.waitThrew
            /\ retries >= maxRetries) =>
            /\ ResultReturned
            /\ \A f \in ProfileFields : seen[f] # {} => outcome.value[f] \in seen[f]

\* a JavaScript string: neither null nor a thrown error
IsString(s) == \A i \in DOMAIN s : s[i] \notin {"#null", "#throws"}

\* the field set of the scraper that runs
FieldSet == IF IsSocial THEN Fields ELSE ProfileFields

(* C11: what extractSocialLinks or scrapeFacebookProfile returns is either   *)
(* a record with exactly the fields of the scraper's field set, each a       *)
(* string, and no error key, or a record with exactly the keys error and     *)
(* url; once the page is open the promise of these two scrapers does not     *)
(* reject.                                                                   *)
C11_OutputShape ==
    ((IsSocial \/ IsFacebook) /\ outcome.status # "pending" /\ ~trail.setupFailed) =>
        /\ outcome.status \in {"returning", "returned"}
        /\ \/ /\ DOMAIN outcome.value = FieldSet
              /\ \A f \in FieldSet : IsString(outcome.value[f])
           \/ /\ DOMAIN outcome.value = {"error", "url"}
              /\ IsString(outcome.value["error"]) /\ outcome.value["url"] = url

\* scrapeFacebookProfile returned the all-empty default after its last pass
C11_Witness ==
    /\ Done /\ IsFacebook /\ ResultReturned /\ maxRetries = MaxCap /\ passes = MaxCap
    /\ outcome.value = EmptyProfile

\* no strategy of any pass so far met a value for any field
ZeroSignal == \A f \in Fields : best.cand[f].s = 0

(* C12: while no strategy of extractSocialLinks has met a matching signal    *)
(* on the loaded page, hasSocialLinks() is false and every field is '';      *)
(* the invocation then runs all maxRetries passes and returns the record     *)
(* with every field ''.                                                      *)
C12_ZeroSignal ==
    (IsSocial /\ ZeroSignal /\ ~trail.setupFailed /\ ~trail.navFailed) =>
        /\ ~hasSocialLinks(result)
        /\ result = InitialResult
        /\ Done => /\ ResultReturned
                   /\ outcome.value = InitialResult
                   /\ passes = maxRetries

\* two complete passes over a page without signals, then the empty record
C12_Witness ==
    /\ Done /\ IsSocial /\ ZeroSignal /\ maxRetries = MaxCap /\ passes = MaxCap
    /\ trail.threw = 0 /\ waits = MaxCap - 1 /\ outcome.value = InitialResult

\* strategy s has been executed in the pass in progress
HasRun(s) == \E i \in DOMAIN ran : ran[i] = s

(* C14, as claimed: at the end of a pass of extractSocialLinks a strategy    *)
(* was left out only if every field of the record is resolved.               *)
C14_SkipsOnlyWhenAllResolved_Claimed ==
    (IsSocial /\ pc = "check") =>
        \A s \in Regions..RawMarkup :
            ~HasRun(s) => \A f \in Fields : Truthy(result[f])

(* C14: a pass of extractSocialLinks executes its strategies in the order    *)
(* 1..6, each at most once, and strategies 1 to 4 always, whatever is        *)
(* resolved; the full-document scan (5) and the raw-markup search (6)        *)
(* begin only while no field at all is resolved, and are left out exactly    *)
(* when some field is resolved at their turn.                                *)
C14_PassStructure ==
    /\ [](IsSocial =>
            /\ \A i \in DOMAIN ran : ran[i] \in Regions..RawMarkup
            /\ \A i \in DOMAIN ran : \A j \in DOMAIN ran : i < j => ran[i] < ran[j]
            /\ pc \in {"document", "markup", "check"} =>
                    /\ Len(ran) >= MetaTags
                    /\ SubSeq(ran, 1, MetaTags) = <<Regions, JsonLd, RelMe, MetaTags>>
            /\ (pc \in {"markup", "check"} /\ ~HasRun(FullDocument)) => hasSocialLinks(result)
            /\ (pc = "check" /\ ~HasRun(RawMarkup)) => hasSocialLinks(result))
    /\ [][IsSocial =>
            \A s \in {FullDocument, RawMarkup} :
                (~HasRun(s) /\ HasRun(s)') => ~hasSocialLinks(result)]_vars

\* a pass ended after strategies 1 to 4 with one field resolved and others not
C14_Witness ==
    /\ IsSocial /\ pc = "check" /\ ran = <<Regions, JsonLd, RelMe, MetaTags>>
    /\ Truthy(result["facebook"]) /\ ~Truthy(result["twitter"])

(* C15: whenever a pass of extractSocialLinks or scrapeFacebookProfile       *)
(* begins, one waitForTimeout has been called for each pass before it:       *)
(* exactly one delay lies between any two consecutive passes.                *)
C15_OneWaitBetweenPasses ==
    ((IsSocial /\ pc = "query") \/ (IsFacebook /\ pc = "name")) => waits = passes - 1

(* C16: when an invocation of extractSocialLinks or scrapeFacebookProfile    *)
(* has settled, every waitForTimeout it called was followed by another       *)
(* pass: there are fewer delays than passes, and none after the last pass   *)
(* (the delays themselves returning normally).                               *)
C16_NoWaitAfterLastPass ==
    ((IsSocial \/ IsFacebook) /\ Done /\ ~trail.waitThrew) =>
        waits <= (IF passes = 0 THEN 0 ELSE passes - 1)

(* C18, as claimed: when the loop of extractSocialLinks or of                *)
(* scrapeFacebookProfile exits, its counter equals the number of passes      *)
(* performed.                                                                *)
C18_CounterIsPasses_Claimed ==
    /\ (IsSocial /\ pc = "return") => attempts = passes
    /\ (IsFacebook /\ pc = "after") => retries = passes

(* C18: attempts of extractSocialLinks counts the passes begun and never     *)
(* exceeds maxRetries.  retries of scrapeFacebookProfile never exceeds       *)
(* maxRetries and counts the passes that ended without a profile and whose   *)
(* delay has returned: inside a pass it is one less than the passes begun,   *)
(* and at the loop's exit it is the number of passes, less one when the      *)
(* last pass found the profile.                                              *)
C18_AttemptCounter ==
    /\ IsSocial => attempts = passes /\ attempts <= maxRetries
    /\ IsFacebook =>
        /\ retries <= maxRetries
        /\ pc \in {"name", "likes", "spans", "contact", "category", "check", "catch", "wait"}
                => retries = passes - 1
        /\ pc = "loop" => retries = passes
        /\ pc = "after" =>
                retries = (IF profileInfo # NoProfile THEN passes - 1 ELSE passes)

\* the second pass found the profile: two passes, counter 1
C18_Witness ==
    /\ IsFacebook /\ pc = "after" /\ profileInfo # NoProfile
    /\ passes = MaxCap /\ retries = MaxCap - 1

(* C19: when an invocation of any of the three scrapers has settled after    *)
(* its page was opened, the browser is closed and browser.close() was        *)
(* called exactly once, whatever the outcome.                                *)
C19_BrowserClosedOnce ==
    (Done /\ browser # "none" /\ ~trail.setupFailed) =>
        browser = "closed" /\ closes = 1

(* C20: every invocation eventually settles, whatever the page answers and   *)
(* whatever heights it reports while scrapeLocalServices scrolls.            *)
C20_Terminates == <>Done

(* C17: the strategies of one pass of extractSocialLinks, applied to a       *)
(* record whose fields are all resolved, change no field, whatever the page  *)
(* holds; and applied a second time to the same page content, they give the  *)
(* record the first application gave.                                        *)
C17_PassIdempotent ==
    [][/\ (\A f \in Fields : Truthy(result[f])) => result' = result
       /\ pc = "second" => result' = result]_vars

\* a second application after a first one that resolved a field from the document
C17_Witness ==
    /\ pc = "applied" /\ passes = 2
    /\ result["facebook"] = <<"//", "FACEBOOK.COM", "/Acme">>
    /\ ~Truthy(result["linkedin"])

(* What an invocation with the frame fr shows when it runs alone: its record *)
(* holds, field by field, what its own strategies met first on its own page; *)
(* its counter counts its own passes; it returns its own record; and it      *)
(* closes its own browser once.                                              *)
AsAlone(fr) ==
    /\ fr.passes <= fr.maxRetries
    /\ fr.fn = "extractSocialLinks" =>
        /\ fr.attempts = fr.passes
        /\ \A f \in Fields :
              IF fr.best.cand[f].s = 0
              THEN fr.result[f] = Empty
              ELSE fr.result[f] = fr.best.cand[f].v
        /\ (fr.outcome.status # "pending" /\ "error" \notin DOMAIN fr.outcome.value
                /\ ~fr.trail.setupFailed)
              => fr.outcome.value = fr.result
    /\ fr.fn = "scrapeFacebookProfile" =>
        /\ fr.retries <= fr.passes
        /\ fr.profileInfo # NoProfile =>
              fr.profileInfo = (IF FoundAny(fr.locals) /\ fr.trail.completeAt # 0
                                THEN ProfileOf(fr.locals) ELSE EmptyProfile)
        /\ (fr.outcome.status # "pending" /\ "error" \notin DOMAIN fr.outcome.value
                /\ ~fr.trail.setupFailed)
              => fr.outcome.value = fr.profileInfo
    /\ (fr.pc = "done" /\ ~fr.trail.setupFailed) => fr.browser = "closed" /\ fr.closes = 1

(* C13: with two invocations of extractSocialLinks or scrapeFacebookProfile  *)
(* interleaved at their awaits, in every interleaving each invocation's      *)
(* record, counter, pass count, returned value and browser are what they     *)
(* are when it runs alone on its page.                                       *)
C13_Isolation == AsAlone(Frame) /\ (other # NoOther => AsAlone(other))

(* both have settled: the one resolved its facebook link in one pass, the    *)
(* other ran one pass on a page without signals and returned the empty       *)
(* record                                                                    *)
C13_Witness ==
    /\ Done /\ other # NoOther /\ other.pc = "done"
    /\ fn = "extractSocialLinks" /\ other.fn = "extractSocialLinks"
    /\ ResultReturned /\ Truthy(result["facebook"]) /\ passes = 1
    /\ other.outcome.status = "returned" /\ other.outcome.value = InitialResult
    /\ other.passes = 1

-----------------------------------------------------------------------------
(* The fields of a listing, stated from the spans of the item *)

\* the text the callback reads from span i of the item
SpanText(i) == Trim(dom.spans[i])

\* the spans whose text contains neither 'open' nor 'closed'
Qualifying ==
    {i \in DOMAIN dom.spans :
        LET lower == ToLowerCase(SpanText(i))
        IN  ~Includes(lower, "open") /\ ~Includes(lower, "closed")}

\* the first span of a set in document order; 0: there is none
FirstOf(S) == IF S = {} THEN 0 ELSE CHOOSE x \in S : \A y \in S : x <= y

TextAt(i) == IF i = 0 THEN NA ELSE SpanText(i)

PhoneSpan == FirstOf({i \in Qualifying : PhoneTest(SpanText(i))})

CategorySpan == FirstOf({i \in Qualifying : i # PhoneSpan})

AddressSpan ==
    IF CategorySpan = 0
    THEN 0
    ELSE FirstOf({i \in Qualifying : i > CategorySpan /\ i # PhoneSpan})

Found(d, f) ==
    CASE f = "phone" -> d.foundPhone
      [] f = "category" -> d.foundCategory
      [] f = "address" -> d.foundAddress

ListingPushed == IsLocal /\ pc = "pushed"

\* the next span after the one category took, whichever field takes it
NextAfterCategory ==
    IF CategorySpan = 0 THEN 0 ELSE FirstOf({i \in Qualifying : i > CategorySpan})

(* C21 as stated: [...] address takes the next span after category is set.   *)
(* A phone span that follows the category span is that next span, and it is  *)
(* taken as phone.                                                           *)
C21_AddressNextAfterCategory_Claimed ==
    /\ [][\A f \in {"phone", "category", "address"} :
              Found(details, f) => Found(details', f) /\ details'[f] = details[f]]_vars
    /\ [](\A f \in {"phone", "category", "address"} :
              ~Found(details, f) => details[f] = NA)
    /\ [](ListingPushed =>
              /\ outcome.value.phone = TextAt(PhoneSpan)
              /\ outcome.value.category = TextAt(CategorySpan)
              /\ outcome.value.address = TextAt(NextAfterCategory))

(* C21: scanning the spans of a listing in document order, a span whose text *)
(* contains 'open' or 'closed' changes no field; each of phone, category and *)
(* address, once assigned, keeps its value, and is 'N/A' until assigned; in  *)
(* the record pushed, phone is the first span matching the phone pattern,    *)
(* category the first other span (not the one taken as phone), address the   *)
(* next span after the one category took that is not the one taken as        *)
(* phone, and a field with no such span is 'N/A'.                            *)
C21_ListingFields ==
    /\ [][\A f \in {"phone", "category", "address"} :
              Found(details, f) => Found(details', f) /\ details'[f] = details[f]]_vars
    /\ [][(scanned' = scanned + 1 /\ scanned' \notin Qualifying) => details' = details]_vars
    /\ [](\A f \in {"phone", "category", "address"} :
              ~Found(details, f) => details[f] = NA)
    /\ [](ListingPushed =>
              /\ outcome.value.phone = TextAt(PhoneSpan)
              /\ outcome.value.category = TextAt(CategorySpan)
              /\ outcome.value.address = TextAt(AddressSpan))

\* a listing pushed whose phone span lies between its category and address spans
C21_Witness ==
    /\ ListingPushed
    /\ 0 < CategorySpan /\ CategorySpan < PhoneSpan /\ PhoneSpan < AddressSpan
    /\ outcome.value.address = SpanText(AddressSpan)

====
